---- MODULE Spec2Model ----
(***************************************************************************)
(* Coffee shop bot: the sqlite-backed CoffeeRepository                     *)
(* (src/coffee_repository.py) and the telebot handlers that drive it       *)
(* (src/main.py).                                                          *)
(*                                                                         *)
(* Prices are integer cents.  The created_at / updated_at columns are not  *)
(* modelled: no handler reads them.  sqlite3.Error branches (I/O failures) *)
(* are not modelled: they change no table.                                 *)
(***************************************************************************)
EXTENDS Integers, Sequences, FiniteSets, TLC

\* ------------------------------------------------------------------ bounds
MaxCoffeeId == 3
MaxCartId == 2
MaxCount == 5

\* ------------------------------------------------------------------ inputs
Users == {42, 7}
Procs == {1, 2}
StoreCounts == {2, 3}
CoffeeIdInputs == 1..MaxCoffeeId

Latte == [name |-> "Latte", description |-> "Espresso with steamed milk", picture_url |-> "https://img/latte.jpg", price |-> 350]
Espresso == [name |-> "Espresso", description |-> "Strong black coffee", picture_url |-> " ", price |-> 200]

\* the starter list imported from coffees.py (main.py line 8)
coffees_seed == <<Latte, Espresso>>

\* field tuples add_coffee / update_coffee are called with
CoffeeInputs == {Latte, Espresso}

\* Optional[int]: <<>> is None, <<x>> is x
None == <<>>
Some(x) == <<x>>

\* coffees, cart_items      the two tables (coffee_repository.py 28-49)
\* sqlite_sequence          the AUTOINCREMENT counters sqlite keeps per table
\* foreign_keys             whether the connections enforce foreign keys
\* started                  whether main.py's __main__ block has run
\* rendered                 the callback tokens of the buttons sent so far
\* last                     the operation that ran last, with its result
\* added, deleted, cleared  history: amounts added per pair, coffee ids
\*                          deleted, users whose rows the last operation removed
\* proc, writer             the statement-level add_to_cart calls and the
\*                          holder of the database write lock
VARIABLES coffees, cart_items, sqlite_sequence, foreign_keys, started, rendered, last, added, deleted, cleared, proc, writer

vars == <<coffees, cart_items, sqlite_sequence, foreign_keys, started, rendered, last, added, deleted, cleared, proc, writer>>

\* ------------------------------------------------------- text of the tokens
Digits == <<"0", "1", "2", "3", "4", "5", "6", "7", "8", "9">>

RECURSIVE NatToStr(_)
NatToStr(n) == IF n < 10 THEN <<Digits[n + 1]>> ELSE NatToStr(n \div 10) \o <<Digits[(n % 10) + 1]>>

\* str(n) as f"{n}" formats an int
IntToStr(n) == IF n < 0 THEN <<"-">> \o NatToStr(0 - n) ELSE NatToStr(n)

\* f"{cents/100:.2f}" for a non-negative amount kept in cents
Fmt2(cents) == NatToStr(cents \div 100) \o <<".">> \o <<Digits[((cents % 100) \div 10) + 1], Digits[(cents % 10) + 1]>>

DigitValue(ch) == CHOOSE d \in 0..9 : Digits[d + 1] = ch

IsDigit(ch) == \E d \in 1..10 : Digits[d] = ch

RECURSIVE DigitsToNat(_)
DigitsToNat(s) == IF Len(s) = 0 THEN 0 ELSE 10 * DigitsToNat(SubSeq(s, 1, Len(s) - 1)) + DigitValue(s[Len(s)])

\* whether int(s) parses: an optional sign, then digits
IsInt(s) ==
    LET body == IF Len(s) > 0 /\ s[1] \in {"-", "+"} THEN Tail(s) ELSE s
    IN  Len(body) > 0 /\ \A i \in 1..Len(body) : IsDigit(body[i])

StrToInt(s) ==
    IF s[1] = "-" THEN 0 - DigitsToNat(Tail(s))
    ELSE IF s[1] = "+" THEN DigitsToNat(Tail(s))
    ELSE DigitsToNat(s)

\* str.split(sep) for a one-character separator
RECURSIVE Split(_, _)
Split(s, sep) ==
    IF \A i \in 1..Len(s) : s[i] # sep THEN <<s>>
    ELSE LET k == CHOOSE i \in 1..Len(s) : s[i] = sep /\ \A j \in 1..(i - 1) : s[j] # sep
         IN  <<SubSeq(s, 1, k - 1)>> \o Split(SubSeq(s, k + 1, Len(s)), sep)

StartsWith(s, p) == Len(s) >= Len(p) /\ SubSeq(s, 1, Len(p)) = p

T_coffee == <<"c", "o", "f", "f", "e", "e">>
T_add == <<"a", "d", "d">>
T_checkout == <<"c", "h", "e", "c", "k", "o", "u", "t">>
T_list_coffee == <<"l", "i", "s", "t", "_", "c", "o", "f", "f", "e", "e">>
US == <<"_">>

\* --------------------------------------------------------- the repository
MaxOf(S) == IF S = {} THEN 0 ELSE CHOOSE m \in S : \A x \in S : x <= m

\* variant: a plain INTEGER PRIMARY KEY, one past the largest id still stored
NextRowIdNoAutoincrement(seq, rows) == MaxOf({r.id : r \in rows}) + 1

\* INTEGER PRIMARY KEY AUTOINCREMENT: one past the largest id ever used
NextRowId(seq, rows) == MaxOf({seq} \cup {r.id : r \in rows}) + 1

\* rows in rowid order, as a table scan returns them
RECURSIVE RowsById(_)
RowsById(rows) ==
    IF rows = {} THEN <<>>
    ELSE LET r == CHOOSE x \in rows : \A y \in rows : x.id <= y.id
         IN  <<r>> \o RowsById(rows \ {r})

\* variant: the existence check always finds a row
SelectCoffeeAny(cs, coffee_id) == Some(coffee_id)

\* SELECT id FROM coffees WHERE id = ? ; fetchone()

SelectCoffee(cs, coffee_id) ==
    IF \E c \in cs : c.id = coffee_id THEN Some(coffee_id) ELSE None

\* SELECT id, count FROM cart_items WHERE user_id = ? AND coffee_id = ? ; fetchone()
SelectCartItem(items, user_id, coffee_id) ==
    LET hit == {r \in items : r.user_id = user_id /\ r.coffee_id = coffee_id}
    IN  IF hit = {} THEN None ELSE Some(RowsById(hit)[1])

\* the coffees table after add_coffee's INSERT
InsertCoffee(cs, seq, f) ==
    cs \cup {[id |-> NextRowId(seq, cs), name |-> f.name, description |-> f.description, picture_url |-> f.picture_url, price |-> f.price]}

\* the coffees table after update_coffee's UPDATE
UpdateCoffeeRows(cs, id, f) ==
    {IF c.id = id THEN [id |-> id, name |-> f.name, description |-> f.description, picture_url |-> f.picture_url, price |-> f.price] ELSE c : c \in cs}

\* the coffees table after delete_coffee's DELETE
DeleteCoffeeRows(cs, id) == {c \in cs : c.id # id}

\* ON DELETE CASCADE acts only on a connection with foreign_keys on;
\* _connect issues no PRAGMA, so the library's compiled default applies
CascadeCartItems(fk, items, id) ==
    IF fk THEN {r \in items : r.coffee_id # id} ELSE items

\* variant: always INSERT
UpsertAlwaysInsert(items, seq, existing_item, user_id, coffee_id, count) ==
    items \cup {[id |-> NextRowId(seq, items), user_id |-> user_id, coffee_id |-> coffee_id, count |-> count]}

\* variant: UPDATE sets the count to the amount instead of the sum
UpsertOverwrite(items, seq, existing_item, user_id, coffee_id, count) ==
    IF existing_item # None
    THEN {IF r.id = existing_item[1].id THEN [r EXCEPT !.count = count] ELSE r : r \in items}
    ELSE items \cup {[id |-> NextRowId(seq, items), user_id |-> user_id, coffee_id |-> coffee_id, count |-> count]}

\* the cart_items table after add_to_cart's UPDATE or INSERT
UpsertCartItem(items, seq, existing_item, user_id, coffee_id, count) ==
    IF existing_item # None
    THEN LET new_count == existing_item[1].count + count
         IN  {IF r.id = existing_item[1].id THEN [r EXCEPT !.count = new_count] ELSE r : r \in items}
    ELSE items \cup {[id |-> NextRowId(seq, items), user_id |-> user_id, coffee_id |-> coffee_id, count |-> count]}

\* sqlite_sequence.seq of a table after a statement left it with these rows
SeqAfter(seq, rows) == MaxOf({seq} \cup {r.id : r \in rows})

\* variant: the unscoped DELETE whatever the argument
DeleteCartItemsAll(items, user_id) == {}

\* the cart_items table after clear_cart's DELETE

DeleteCartItems(items, user_id) ==
    IF user_id # None THEN {r \in items : r.user_id # user_id[1]} ELSE {}

\* variant: price + count
LineTotalSum(price, count) == price + count

\* c.price * ci.count

LineTotal(price, count) == price * count

\* one row of get_cart_items' JOIN
CartLine(ci, c) ==
    [coffee_id |-> c.id, name |-> c.name, description |-> c.description, picture_url |-> c.picture_url, price |-> c.price, count |-> ci.count, total_price |-> LineTotal(c.price, ci.count)]

\* cart_items ci JOIN coffees c ON ci.coffee_id = c.id, in cart rowid order
RECURSIVE JoinRows(_, _)
JoinRows(cis, cs) ==
    IF Len(cis) = 0 THEN <<>>
    ELSE LET m == {c \in cs : c.id = Head(cis).coffee_id}
         IN  (IF m = {} THEN <<>> ELSE <<CartLine(Head(cis), CHOOSE c \in m : TRUE)>>) \o JoinRows(Tail(cis), cs)

\* get_cart_items(user_id): the scoped query; the unscoped one adds user_id
get_cart_items(cs, items, user_id) ==
    IF user_id # None
    THEN JoinRows(RowsById({r \in items : r.user_id = user_id[1]}), cs)
    ELSE JoinRows(RowsById(items), cs)

\* ORDER BY name over the names the inputs use (BINARY collation)
NameOrder == <<"Espresso", "Latte">>

NameRank(name) == CHOOSE i \in 1..Len(NameOrder) : NameOrder[i] = name

\* list_coffee(coffee_id): by id, or all ordered by name (ties in rowid order)
RECURSIVE RowsByName(_)
RowsByName(rows) ==
    IF rows = {} THEN <<>>
    ELSE LET r == CHOOSE x \in rows : \A y \in rows :
                      \/ NameRank(x.name) < NameRank(y.name)
                      \/ NameRank(x.name) = NameRank(y.name) /\ x.id <= y.id
         IN  <<r>> \o RowsByName(rows \ {r})

list_coffee(cs, coffee_id) ==
    IF coffee_id # None THEN RowsById({c \in cs : c.id = coffee_id[1]}) ELSE RowsByName(cs)

\* ------------------------------------------------------- bookkeeping
\* the operation that ran last, its arguments (0 where it has none) and result
Last(op, user, coffee, count, ret) == [op |-> op, user |-> user, coffee |-> coffee, count |-> count, ret |-> ret]

Pairs == Users \X CoffeeIdInputs

HasRow(items, u, c) == \E r \in items : r.user_id = u /\ r.coffee_id = c

\* history: per (user, coffee), the amounts added since the pair last had no row
AddedAfter(items, u, c, n) ==
    [p \in Pairs |-> IF ~HasRow(items, p[1], p[2]) THEN 0
                     ELSE IF p = <<u, c>> THEN added[p] + n ELSE added[p]]

\* history: the users who lost a cart row to the last operation
ClearedBy(before, after) == {r.user_id : r \in {x \in before : \A y \in after : y.id # x.id}}

WithinBounds(items) ==
    \A r \in items : r.id <= MaxCartId /\ r.count <= MaxCount

\* ------------------------------------------------- repository operations
\* add_to_cart as one call: existence check, row lookup, upsert, commit
AddToCartResult(cs, items, seq, user_id, coffee_id, count) ==
    IF SelectCoffee(cs, coffee_id) = None
    THEN [ret |-> FALSE, cart_items |-> items, seq |-> seq]
    ELSE LET existing_item == SelectCartItem(items, user_id, coffee_id)
             rows == UpsertCartItem(items, seq, existing_item, user_id, coffee_id, count)
         IN  [ret |-> TRUE, cart_items |-> rows, seq |-> SeqAfter(seq, rows)]

Init ==
    /\ coffees = {}
    /\ cart_items = {}
    /\ sqlite_sequence = [coffees |-> 0, cart_items |-> 0]
    /\ foreign_keys \in BOOLEAN
    /\ started = FALSE
    /\ rendered = {}
    /\ last = Last("initialize", 0, 0, 0, TRUE)
    /\ added = [p \in Pairs |-> 0]
    /\ deleted = {}
    /\ cleared = {}
    /\ proc = [p \in Procs |-> [pc |-> "idle"]]
    /\ writer = 0

add_coffee(f) ==
    /\ NextRowId(sqlite_sequence.coffees, coffees) <= MaxCoffeeId
    /\ coffees' = InsertCoffee(coffees, sqlite_sequence.coffees, f)
    /\ sqlite_sequence' = [sqlite_sequence EXCEPT !.coffees = SeqAfter(@, coffees')]
    /\ last' = Last("add_coffee", 0, 0, 0, NextRowId(sqlite_sequence.coffees, coffees))
    /\ UNCHANGED <<cart_items, foreign_keys, started, rendered, added, deleted, proc, writer>>
    /\ cleared' = {}

update_coffee(id, f) ==
    /\ coffees' = UpdateCoffeeRows(coffees, id, f)
    /\ last' = Last("update_coffee", 0, id, 0, \E c \in coffees : c.id = id)
    /\ UNCHANGED <<cart_items, sqlite_sequence, foreign_keys, started, rendered, added, deleted, proc, writer>>
    /\ cleared' = {}

delete_coffee(id) ==
    LET matched == \E c \in coffees : c.id = id
    IN  /\ coffees' = DeleteCoffeeRows(coffees, id)
        /\ cart_items' = IF matched THEN CascadeCartItems(foreign_keys, cart_items, id) ELSE cart_items
        /\ last' = Last("delete_coffee", 0, id, 0, matched)
        /\ added' = AddedAfter(cart_items', 0, 0, 0)
        /\ deleted' = IF matched THEN deleted \cup {id} ELSE deleted
        /\ cleared' = ClearedBy(cart_items, cart_items')
        /\ UNCHANGED <<sqlite_sequence, foreign_keys, started, rendered, proc, writer>>

add_to_cart(user_id, coffee_id, count) ==
    LET res == AddToCartResult(coffees, cart_items, sqlite_sequence.cart_items, user_id, coffee_id, count)
    IN  /\ WithinBounds(res.cart_items)
        /\ cart_items' = res.cart_items
        /\ sqlite_sequence' = [sqlite_sequence EXCEPT !.cart_items = res.seq]
        /\ last' = Last("add_to_cart", user_id, coffee_id, count, res.ret)
        /\ added' = AddedAfter(cart_items', user_id, coffee_id, IF res.ret THEN count ELSE 0)
        /\ cleared' = {}
        /\ UNCHANGED <<coffees, foreign_keys, started, rendered, deleted, proc, writer>>

clear_cart(user_id) ==
    /\ cart_items' = DeleteCartItems(cart_items, user_id)
    /\ last' = Last("clear_cart", IF user_id = None THEN 0 ELSE user_id[1], 0, 0, TRUE)
    /\ added' = AddedAfter(cart_items', 0, 0, 0)
    /\ cleared' = ClearedBy(cart_items, cart_items')
    /\ UNCHANGED <<coffees, sqlite_sequence, foreign_keys, started, rendered, deleted, proc, writer>>

StoreNext ==
    \/ \E f \in CoffeeInputs : add_coffee(f)
    \/ \E id \in CoffeeIdInputs, f \in CoffeeInputs : update_coffee(id, f)
    \/ \E id \in CoffeeIdInputs : delete_coffee(id)
    \/ \E u \in Users, c \in CoffeeIdInputs, n \in StoreCounts : add_to_cart(u, c, n)
    \/ \E u \in {None} \cup {Some(x) : x \in Users} : clear_cart(u)

Spec == Init /\ [][StoreNext]_vars

\* ------------------------------------------------- conversation handlers
\* callback_data of one catalog entry: f"coffee_{coffee['id']}"
CoffeeToken(id) == T_coffee \o US \o IntToStr(id)

\* callback_data of one add button: f"add_{coffee_id}_{n}"
AddToken(coffee_id, n) == T_add \o US \o IntToStr(coffee_id) \o US \o IntToStr(n)

\* create_coffee_list_markup: one button per coffee
create_coffee_list_markup(cs) == {CoffeeToken(cs[i].id) : i \in 1..Len(cs)}

\* variant: the first button carries count 0
create_coffee_detail_markup_zero(coffee_id) == {AddToken(coffee_id, 0), AddToken(coffee_id, 3)}

\* create_coffee_detail_markup: the "add" and "add 3" buttons
create_coffee_detail_markup(coffee_id) == {AddToken(coffee_id, 1), AddToken(coffee_id, 3)}

\* the buttons show_coffee_details sends: none when the coffee is not found
show_coffee_details(cs, coffee_id) ==
    IF list_coffee(cs, Some(coffee_id)) = <<>> THEN {} ELSE create_coffee_detail_markup(coffee_id)

\* the callback handler a token reaches: the first registered filter it passes
Dispatch(data) ==
    IF data = T_list_coffee THEN "callback_list_coffee"
    ELSE IF StartsWith(data, T_coffee \o US) THEN "callback_coffee_details"
    ELSE IF StartsWith(data, T_add \o US) THEN "callback_add_to_cart"
    ELSE IF data = T_checkout THEN "callback_checkout"
    ELSE "none"

\* view_cart's loop: total_price += item['total_price']
RECURSIVE SumTotals(_)
SumTotals(items) == IF Len(items) = 0 THEN 0 ELSE Head(items).total_price + SumTotals(Tail(items))

\* variant: checkout clears the caller's cart only
CheckoutScopeUser(user_id) == Some(user_id)

\* the argument callback_checkout passes to clear_cart: none

CheckoutScope(user_id) == None

\* the __main__ block's loop over the starter list
RECURSIVE SeedAll(_, _, _)
SeedAll(cs, seq, list) ==
    IF Len(list) = 0 THEN [coffees |-> cs, seq |-> seq]
    ELSE LET rows == InsertCoffee(cs, seq, Head(list))
         IN  SeedAll(rows, SeqAfter(seq, rows), Tail(list))

\* the __main__ block: seed an empty catalog, then start polling
Bootstrap ==
    LET seeded == IF list_coffee(coffees, None) = <<>>
                  THEN SeedAll(coffees, sqlite_sequence.coffees, coffees_seed)
                  ELSE [coffees |-> coffees, seq |-> sqlite_sequence.coffees]
    IN  /\ ~started
        /\ seeded.seq <= MaxCoffeeId
        /\ started' = TRUE
        /\ coffees' = seeded.coffees
        /\ sqlite_sequence' = [sqlite_sequence EXCEPT !.coffees = seeded.seq]
        /\ last' = Last("bootstrap", 0, 0, 0, TRUE)
        /\ cleared' = {}
        /\ UNCHANGED <<cart_items, foreign_keys, rendered, added, deleted, proc, writer>>

send_welcome(u) ==
    /\ started
    /\ last' = Last("send_welcome", u, 0, 0, TRUE)
    /\ cleared' = {}
    /\ UNCHANGED <<coffees, cart_items, sqlite_sequence, foreign_keys, started, rendered, added, deleted, proc, writer>>

list_coffees(u) ==
    LET cs == list_coffee(coffees, None)
    IN  /\ started
        /\ rendered' = rendered \cup create_coffee_list_markup(cs)
        /\ last' = Last("list_coffees", u, 0, 0, cs # <<>>)
        /\ cleared' = {}
        /\ UNCHANGED <<coffees, cart_items, sqlite_sequence, foreign_keys, started, added, deleted, proc, writer>>

recommend_coffee(u) ==
    LET cs == list_coffee(coffees, None)
    IN  /\ started
        /\ \/ /\ cs = <<>>
              /\ last' = Last("recommend_coffee", u, 0, 0, FALSE)
              /\ UNCHANGED rendered
           \/ \E i \in 1..Len(cs) :
                 /\ rendered' = rendered \cup show_coffee_details(coffees, cs[i].id)
                 /\ last' = Last("recommend_coffee", u, cs[i].id, 0, TRUE)
        /\ cleared' = {}
        /\ UNCHANGED <<coffees, cart_items, sqlite_sequence, foreign_keys, started, added, deleted, proc, writer>>

view_cart(u) ==
    LET items == get_cart_items(coffees, cart_items, Some(u))
    IN  /\ started
        /\ rendered' = IF items = <<>> THEN rendered ELSE rendered \cup {T_checkout}
        /\ last' = Last("view_cart", u, 0, 0,
                        IF items = <<>> THEN [items |-> items, total |-> <<>>]
                        ELSE [items |-> items, total |-> Fmt2(SumTotals(items))])
        /\ cleared' = {}
        /\ UNCHANGED <<coffees, cart_items, sqlite_sequence, foreign_keys, started, added, deleted, proc, writer>>

clear_cart_message(u) ==
    /\ started
    /\ cart_items' = DeleteCartItems(cart_items, Some(u))
    /\ last' = Last("clear_cart_message", u, 0, 0, TRUE)
    /\ added' = AddedAfter(cart_items', 0, 0, 0)
    /\ cleared' = ClearedBy(cart_items, cart_items')
    /\ UNCHANGED <<coffees, sqlite_sequence, foreign_keys, started, rendered, deleted, proc, writer>>

callback_coffee_details(u, data) ==
    /\ started
    /\ data \in rendered
    /\ Dispatch(data) = "callback_coffee_details"
    /\ IsInt(Split(data, "_")[2])
    /\ LET coffee_id == StrToInt(Split(data, "_")[2])
       IN  /\ rendered' = rendered \cup show_coffee_details(coffees, coffee_id)
           /\ last' = Last("callback_coffee_details", u, coffee_id, 0, list_coffee(coffees, Some(coffee_id)) # <<>>)
    /\ cleared' = {}
    /\ UNCHANGED <<coffees, cart_items, sqlite_sequence, foreign_keys, started, added, deleted, proc, writer>>

callback_add_to_cart(u, data) ==
    /\ started
    /\ data \in rendered
    /\ Dispatch(data) = "callback_add_to_cart"
    /\ Len(Split(data, "_")) >= 3
    /\ IsInt(Split(data, "_")[2])
    /\ IsInt(Split(data, "_")[3])
    /\ LET coffee_id == StrToInt(Split(data, "_")[2])
           count == StrToInt(Split(data, "_")[3])
           res == AddToCartResult(coffees, cart_items, sqlite_sequence.cart_items, u, coffee_id, count)
       IN  /\ WithinBounds(res.cart_items)
           /\ cart_items' = res.cart_items
           /\ sqlite_sequence' = [sqlite_sequence EXCEPT !.cart_items = res.seq]
           /\ last' = Last("callback_add_to_cart", u, coffee_id, count, res.ret)
           /\ added' = AddedAfter(cart_items', u, coffee_id, IF res.ret THEN count ELSE 0)
    /\ cleared' = {}
    /\ UNCHANGED <<coffees, foreign_keys, started, rendered, deleted, proc, writer>>

callback_checkout(u, data) ==
    /\ started
    /\ data \in rendered
    /\ Dispatch(data) = "callback_checkout"
    /\ cart_items' = DeleteCartItems(cart_items, CheckoutScope(u))
    /\ last' = Last("callback_checkout", u, 0, 0, TRUE)
    /\ added' = AddedAfter(cart_items', 0, 0, 0)
    /\ cleared' = ClearedBy(cart_items, cart_items')
    /\ UNCHANGED <<coffees, sqlite_sequence, foreign_keys, started, rendered, deleted, proc, writer>>

\* callback_list_coffee never runs: no markup carries the token "list_coffee"
CtlNext ==
    \/ Bootstrap
    \/ \E u \in Users : send_welcome(u)
    \/ \E u \in Users : list_coffees(u)
    \/ \E u \in Users : recommend_coffee(u)
    \/ \E u \in Users : view_cart(u)
    \/ \E u \in Users : clear_cart_message(u)
    \/ \E u \in Users, data \in rendered : callback_coffee_details(u, data)
    \/ \E u \in Users, data \in rendered : callback_add_to_cart(u, data)
    \/ \E u \in Users, data \in rendered : callback_checkout(u, data)

CtlSpec == Init /\ [][CtlNext]_vars

\* ------------------------------------- add_to_cart, statement by statement
\* Two calls on separate connections.  The connections are opened with the
\* sqlite3 module's default isolation level: the SELECTs run outside any
\* transaction, the INSERT or UPDATE opens one and takes the database's
\* write lock, and commit publishes the change and releases the lock.
ConcCoffeeIds == {1, 2, 3}
ConcCounts == {1, 3}

SeededCatalog == SeedAll({}, 0, coffees_seed)

PriorCart == {[id |-> 1, user_id |-> 42, coffee_id |-> 1, count |-> 2]}

Call(user_id, coffee_id, count) ==
    [pc |-> "connect", user_id |-> user_id, coffee_id |-> coffee_id, count |-> count,
     existing_item |-> None, pending |-> {}, ret |-> FALSE]

ConcInit ==
    /\ coffees = SeededCatalog.coffees
    /\ cart_items \in {{}, PriorCart}
    /\ sqlite_sequence = [coffees |-> SeededCatalog.seq, cart_items |-> SeqAfter(0, cart_items)]
    /\ foreign_keys \in BOOLEAN
    /\ started = TRUE
    /\ rendered = {}
    /\ last = Last("bootstrap", 0, 0, 0, TRUE)
    /\ added = [p \in Pairs |-> IF HasRow(cart_items, p[1], p[2]) THEN 2 ELSE 0]
    /\ deleted = {}
    /\ cleared = {}
    /\ proc \in [Procs -> {Call(u, c, n) : u \in Users, c \in ConcCoffeeIds, n \in ConcCounts}]
    /\ writer = 0

\* lines 189-194: connect, check the coffee exists
StmtSelectCoffee(p) ==
    /\ proc[p].pc = "connect"
    /\ proc' = [proc EXCEPT ![p].pc =
                   IF SelectCoffee(coffees, proc[p].coffee_id) = None THEN "done" ELSE "select_cart"]
    /\ UNCHANGED <<coffees, cart_items, sqlite_sequence, foreign_keys, started, rendered, last, added, deleted, cleared, writer>>

\* lines 196-201: look the cart row up
StmtSelectCartItem(p) ==
    /\ proc[p].pc = "select_cart"
    /\ proc' = [proc EXCEPT ![p].pc = "write",
                            ![p].existing_item = SelectCartItem(cart_items, proc[p].user_id, proc[p].coffee_id)]
    /\ UNCHANGED <<coffees, cart_items, sqlite_sequence, foreign_keys, started, rendered, last, added, deleted, cleared, writer>>

\* lines 203-212: UPDATE or INSERT inside the transaction it opens; waits for the write lock
StmtWrite(p) ==
    /\ proc[p].pc = "write"
    /\ writer = 0
    /\ writer' = p
    /\ proc' = [proc EXCEPT ![p].pc = "commit",
                            ![p].pending = UpsertCartItem(cart_items, sqlite_sequence.cart_items, proc[p].existing_item,
                                                          proc[p].user_id, proc[p].coffee_id, proc[p].count)]
    /\ UNCHANGED <<coffees, cart_items, sqlite_sequence, foreign_keys, started, rendered, last, added, deleted, cleared>>

\* lines 214-215: commit, return True
StmtCommit(p) ==
    /\ proc[p].pc = "commit"
    /\ writer = p
    /\ writer' = 0
    /\ cart_items' = proc[p].pending
    /\ sqlite_sequence' = [sqlite_sequence EXCEPT !.cart_items = SeqAfter(@, proc[p].pending)]
    /\ proc' = [proc EXCEPT ![p].pc = "done", ![p].ret = TRUE]
    /\ added' = [added EXCEPT ![<<proc[p].user_id, proc[p].coffee_id>>] = @ + proc[p].count]
    /\ UNCHANGED <<coffees, foreign_keys, started, rendered, last, deleted, cleared>>

ConcNext ==
    \E p \in Procs :
        \/ StmtSelectCoffee(p)
        \/ StmtSelectCartItem(p)
        \/ StmtWrite(p)
        \/ StmtCommit(p)

ConcSpec == ConcInit /\ [][ConcNext]_vars

\* ------------------------------------------------------------ properties
CoffeeExists(cs, id) == \E c \in cs : c.id = id

PairRows(items, u, c) == {r \in items : r.user_id = u /\ r.coffee_id = c}

CartView(u) == get_cart_items(coffees, cart_items, Some(u))

CartViewNext(u) == get_cart_items(coffees', cart_items', Some(u))

Without(view, coffee_id) == LET Keep(l) == l.coffee_id # coffee_id IN SelectSeq(view, Keep)

RECURSIVE IndexSum(_, _)
IndexSum(view, n) == IF n = 0 THEN 0 ELSE IndexSum(view, n - 1) + view[n].total_price

\* C1: right after delete_coffee(id) removed a coffee, no cart_items row
\* with coffee_id = id is stored and list_coffee(id) is empty.
C1_DeleteCascades ==
    (last.op = "delete_coffee" /\ last.ret = TRUE) =>
        /\ \A r \in cart_items : r.coffee_id # last.coffee
        /\ list_coffee(coffees, Some(last.coffee)) = <<>>

\* C2: under any sequence of store operations run one at a time, cart_items
\* holds at most one row per (user_id, coffee_id) pair.
C2_OneRowPerPair ==
    \A r1 \in cart_items, r2 \in cart_items :
        (r1.user_id = r2.user_id /\ r1.coffee_id = r2.coffee_id) => r1 = r2

C2_MergedIntoExistingRow ==
    /\ last.op = "add_to_cart"
    /\ last.ret = TRUE
    /\ \E r \in cart_items : r.user_id = last.user /\ r.coffee_id = last.coffee /\ r.count > last.count
    /\ Cardinality(cart_items) = 2

C3_CountIsSumAdded == \A r \in cart_items : r.count = added[<<r.user_id, r.coffee_id>>]

C3_AddStep ==
    (last'.op = "add_to_cart" /\ CoffeeExists(coffees, last'.coffee)) =>
        /\ last'.ret = TRUE
        /\ Cardinality(PairRows(cart_items', last'.user, last'.coffee)) = 1
        /\ \A a \in PairRows(cart_items', last'.user, last'.coffee) :
              /\ PairRows(cart_items, last'.user, last'.coffee) = {} => a.count = last'.count
              /\ \A b \in PairRows(cart_items, last'.user, last'.coffee) : a.count = b.count + last'.count
        /\ \A r \in cart_items : (r.user_id # last'.user \/ r.coffee_id # last'.coffee) => r \in cart_items'

\* C3: add_to_cart(u, c, n) on an existing coffee returns True and merges by
\* summation: an existing (u, c) row's count grows by n, otherwise a row
\* with count n is inserted; there is one (u, c) row afterwards, and every
\* row's count is the sum of the amounts added since the pair last had no row.
C3_UpsertSums == []C3_CountIsSumAdded /\ [][C3_AddStep]_vars

C3_TwoThenThree ==
    /\ last.op = "add_to_cart"
    /\ last.count = 3
    /\ last.ret = TRUE
    /\ added[<<last.user, last.coffee>>] = 5
    /\ \E r \in cart_items : r.user_id = last.user /\ r.coffee_id = last.coffee /\ r.count = 5

\* C4: add_to_cart with a coffee id that references no stored coffee returns
\* False and leaves coffees and cart_items as they were.
C4_MissingCoffeeRejected ==
    [][(last'.op = "add_to_cart" /\ ~CoffeeExists(coffees, last'.coffee)) =>
          (last'.ret = FALSE /\ cart_items' = cart_items /\ coffees' = coffees)]_vars

C4_AddToDeletedCoffee ==
    /\ last.op = "add_to_cart"
    /\ last.ret = FALSE
    /\ last.coffee \in deleted
    /\ coffees # {}

\* C5: the checkout callback of any user empties every user's cart; the
\* "clear cart" menu message removes the requesting user's rows only.
C5_CheckoutGlobalClearScoped ==
    [][/\ last'.op = "callback_checkout" =>
             (cart_items' = {} /\ \A u \in Users : CartViewNext(u) = <<>>)
       /\ last'.op = "clear_cart_message" =>
             cart_items' = {r \in cart_items : r.user_id # last'.user}]_vars

C5_CheckoutEmptiedOtherUser ==
    /\ last.op = "callback_checkout"
    /\ last.user = 42
    /\ 7 \in cleared
    /\ cart_items = {}

\* C6: clear_cart(u) removes exactly u's rows, clear_cart() removes every
\* row; both leave coffees unchanged and return True.
C6_ClearCartFrame ==
    [][last'.op = "clear_cart" =>
          /\ last'.ret = TRUE
          /\ coffees' = coffees
          /\ last'.user # 0 => cart_items' = {r \in cart_items : r.user_id # last'.user}
          /\ last'.user = 0 => cart_items' = {}]_vars

C6_ScopedClearLeavesOthers ==
    /\ last.op = "clear_cart"
    /\ last.user = 42
    /\ cleared = {42}
    /\ \E r \in cart_items : r.user_id = 7

C7_NoDeletedLine ==
    \A u \in Users : \A i \in 1..Len(CartView(u)) : CartView(u)[i].coffee_id \notin deleted

C7_DeleteStep ==
    last'.op = "delete_coffee" =>
        \A u \in Users : CartViewNext(u) = Without(CartView(u), last'.coffee)

\* C7: no cart view ever shows a line for a coffee id that was deleted, and
\* deleting a coffee leaves every user's other lines as they were.
C7_DeletedCoffeeStaysOut == []C7_NoDeletedLine /\ [][C7_DeleteStep]_vars

C7_EspressoDeleted ==
    /\ last.op = "delete_coffee"
    /\ last.ret = TRUE
    /\ last.coffee \in deleted
    /\ Len(CartView(42)) = 1
    /\ CartView(42)[1].name = "Latte"
    /\ CartView(42)[1].count = 2
    /\ CartView(42)[1].total_price = 700
    /\ \/ 42 \in cleared
       \/ \E r \in cart_items : r.user_id = 42 /\ r.coffee_id = last.coffee /\ r.count = 3

\* C8: every line of a cart view carries total_price = price * count at the
\* coffee's stored price, and the total view_cart renders is the sum of the
\* line totals.
C8_LineAndGrandTotals ==
    /\ \A u \in Users : \A i \in 1..Len(CartView(u)) :
          \E r \in cart_items, c \in coffees :
              /\ r.user_id = u
              /\ r.coffee_id = c.id
              /\ CartView(u)[i].coffee_id = c.id
              /\ CartView(u)[i].count = r.count
              /\ CartView(u)[i].price = c.price
              /\ CartView(u)[i].total_price = c.price * r.count
    /\ (last.op = "view_cart" /\ CartView(last.user) # <<>>) =>
          /\ last.ret.items = CartView(last.user)
          /\ last.ret.total = Fmt2(IndexSum(last.ret.items, Len(last.ret.items)))

C8_LatteEspressoCart ==
    /\ last.op = "view_cart"
    /\ last.user = 42
    /\ Len(last.ret.items) = 2
    /\ last.ret.items[1].name = "Latte"
    /\ last.ret.items[1].count = 2
    /\ last.ret.items[1].total_price = 700
    /\ last.ret.items[2].name = "Espresso"
    /\ last.ret.items[2].count = 3
    /\ last.ret.items[2].total_price = 600
    /\ last.ret.total = <<"1", "3", ".", "0", "0">>

\* C9: two add_to_cart calls for the same (user, coffee) on separate
\* connections, statements interleaved, end as some serial order would:
\* one row for the pair, its count the earlier count plus both amounts.
C9_ConcurrentAddsSerialize ==
    (/\ \A p \in Procs : proc[p].pc = "done" /\ proc[p].ret = TRUE
     /\ proc[1].user_id = proc[2].user_id
     /\ proc[1].coffee_id = proc[2].coffee_id) =>
        /\ Cardinality(PairRows(cart_items, proc[1].user_id, proc[1].coffee_id)) = 1
        /\ \A r \in PairRows(cart_items, proc[1].user_id, proc[1].coffee_id) :
              r.count = added[<<proc[1].user_id, proc[1].coffee_id>>]

\* C10: through the conversation handlers alone, every stored cart_items
\* row has count >= 1.
C10_CountsPositive == \A r \in cart_items : r.count >= 1

C10_OneThenThree ==
    /\ last.op = "callback_add_to_cart"
    /\ last.count = 3
    /\ \E r \in cart_items : r.user_id = last.user /\ r.coffee_id = last.coffee /\ r.count = 4

====
